---- MODULE Spec2Model ----
(***************************************************************************)
(* A model of SimpleCache.Cache (src/src/SimpleCache.py): a file-backed    *)
(* memoization cache.  The state is the cache directory (one file per      *)
(* digest), the in-memory recency list, the statistics counters and the    *)
(* budget; the operations are the wrapper returned by cache_function,      *)
(* clear, set_maxSize and get_info, plus the out-of-band writes the        *)
(* directory is exposed to.                                                *)
(***************************************************************************)
EXTENDS Integers, Sequences, FiniteSets, TLC

(***************************************************************************)
(* Python values.  A value is a record with a tag: None, a small int, a    *)
(* flat tuple, or an object pickle cannot serialize (a lambda, a handle).  *)
(***************************************************************************)
PyNone == [tag |-> "none"]

PyInt(n) == [tag |-> "int", n |-> n]

PyTuple(items) == [tag |-> "tuple", items |-> items]

PyObj == [tag |-> "obj"]

(***************************************************************************)
(* pickle.dumps, protocol 3 shape: PROTO 3, the value's opcodes, STOP.     *)
(* None is N (78); an int in 0..255 is BININT1 (75) n; the empty tuple is  *)
(* EMPTY_TUPLE (41); a tuple of 1..3 items is its items followed by        *)
(* TUPLE1..TUPLE3 (133..135) and the memo write BINPUT 0 (113 0).  An      *)
(* unpicklable object raises PicklingError before any byte is produced.    *)
(***************************************************************************)
Picklable(v) ==
    CASE v.tag = "obj" -> FALSE
      [] v.tag = "tuple" -> \A i \in 1..Len(v.items) : v.items[i].tag \in {"none", "int"}
      [] OTHER -> TRUE

AtomOps(v) == IF v.tag = "none" THEN <<78>> ELSE <<75, v.n>>

RECURSIVE ItemOps(_)
ItemOps(items) ==
    IF items = <<>> THEN <<>> ELSE AtomOps(Head(items)) \o ItemOps(Tail(items))

ValueOps(v) ==
    IF v.tag = "tuple"
    THEN IF v.items = <<>> THEN <<41>>
         ELSE ItemOps(v.items) \o <<132 + Len(v.items), 113, 0>>
    ELSE AtomOps(v)

dumps(v) ==
    IF Picklable(v)
    THEN [ok |-> TRUE, bytes |-> <<128, 3>> \o ValueOps(v) \o <<46>>]
    ELSE [ok |-> FALSE, bytes |-> <<>>]

(***************************************************************************)
(* pickle.loads: the unpickler's stack machine over the same opcodes.      *)
(* Any other byte, a truncated stream or a stack underflow is an           *)
(* UnpicklingError.                                                        *)
(***************************************************************************)
LoadFail == [ok |-> FALSE, val |-> PyNone]

PopN(stack, k) == SubSeq(stack, 1, Len(stack) - k)

TopN(stack, k) == SubSeq(stack, Len(stack) - k + 1, Len(stack))

RECURSIVE Unpickle(_, _, _)
Unpickle(bytes, pos, stack) ==
    IF pos > Len(bytes) THEN LoadFail
    ELSE LET op == bytes[pos] IN
         CASE op = 46 ->
                IF stack = <<>> THEN LoadFail
                ELSE [ok |-> TRUE, val |-> stack[Len(stack)]]
           [] op = 78 -> Unpickle(bytes, pos + 1, Append(stack, PyNone))
           [] op = 75 ->
                IF pos + 1 > Len(bytes) THEN LoadFail
                ELSE Unpickle(bytes, pos + 2, Append(stack, PyInt(bytes[pos + 1])))
           [] op = 41 -> Unpickle(bytes, pos + 1, Append(stack, PyTuple(<<>>)))
           [] op \in {133, 134, 135} ->
                IF Len(stack) < op - 132 THEN LoadFail
                ELSE Unpickle(bytes, pos + 1,
                              Append(PopN(stack, op - 132),
                                     PyTuple(TopN(stack, op - 132))))
           [] op = 113 ->
                IF pos + 1 > Len(bytes) \/ stack = <<>> THEN LoadFail
                ELSE Unpickle(bytes, pos + 2, stack)
           [] OTHER -> LoadFail

loads(bytes) ==
    IF Len(bytes) < 2 \/ bytes[1] # 128 \/ bytes[2] # 3 THEN LoadFail
    ELSE Unpickle(bytes, 3, <<>>)

(***************************************************************************)
(* zlib.compress / zlib.decompress.  The zlib container is modelled byte   *)
(* for byte: the two header bytes, the deflate body and the big-endian     *)
(* Adler-32 of the payload.  The deflate body is one stored block (final   *)
(* bit, LEN, ~LEN, payload); the Huffman coding zlib chooses at its        *)
(* default level is not modelled.  decompress rejects a wrong header, a    *)
(* wrong length or a wrong checksum with zlib.error.                       *)
(***************************************************************************)
\* The two running sums of Adler-32, <<a, b>>, modulo 65521.
RECURSIVE AdlerSums(_)
AdlerSums(data) ==
    IF data = <<>> THEN <<1, 0>>
    ELSE LET p == AdlerSums(SubSeq(data, 1, Len(data) - 1))
             a == (p[1] + data[Len(data)]) % 65521
         IN  <<a, (p[2] + a) % 65521>>

Adler32(data) ==
    LET s == AdlerSums(data)
    IN  <<s[2] \div 256, s[2] % 256, s[1] \div 256, s[1] % 256>>

compress(data) ==
    <<120, 1>>
    \o <<1, Len(data) % 256, Len(data) \div 256,
         255 - (Len(data) % 256), 255 - (Len(data) \div 256)>>
    \o data \o Adler32(data)

InflateFail == [ok |-> FALSE, bytes |-> <<>>]

decompress(c) ==
    IF Len(c) < 11 THEN InflateFail
    ELSE LET n == c[4] + 256 * c[5]
             data == SubSeq(c, 8, 7 + n)
         IN  IF /\ c[1] = 120 /\ c[2] = 1 /\ c[3] = 1
                /\ c[6] = 255 - c[4] /\ c[7] = 255 - c[5]
                /\ Len(c) = 11 + n
                /\ SubSeq(c, 8 + n, 11 + n) = Adler32(data)
             THEN [ok |-> TRUE, bytes |-> data]
             ELSE InflateFail

(***************************************************************************)
(* The wrapped functions.  steps_to is the function of test/cacheTest.py   *)
(* (its base cases); the others are the doubles the contract speaks of: a  *)
(* function of no argument, one of two arguments, one whose result cannot  *)
(* be pickled and one that raises.  A function is known to the cache by    *)
(* its __name__ only.                                                      *)
(***************************************************************************)
Arity(func) ==
    CASE func = "steps_to" -> 1
      [] func = "nothing" -> 0
      [] func = "add" -> 2
      [] func = "handle" -> 1
      [] func = "boom" -> 1

Raised(exc) == [exc |-> exc, val |-> PyNone]

Returned(v) == [exc |-> "", val |-> v]

StepsTo(stair) ==
    IF stair.tag # "tuple" \/ stair.items = <<>> THEN Raised("TypeError")
    ELSE LET s == stair.items[1] IN
         CASE s = PyInt(1) -> Returned(PyInt(1))
           [] s = PyInt(2) -> Returned(PyInt(2))
           [] s = PyInt(3) -> Returned(PyInt(4))
           [] OTHER -> Raised("TypeError")

\* func(*params): a wrong number of positional arguments is a TypeError.
Apply(func, params) ==
    IF Len(params) # Arity(func) THEN Raised("TypeError")
    ELSE CASE func = "steps_to" -> StepsTo(params[1])
           [] func = "nothing" -> Returned(PyNone)
           [] func = "add" -> Returned(PyInt(params[1].n + params[2].n))
           [] func = "handle" -> Returned(PyObj)
           [] func = "boom" -> Raised("RuntimeError")

\* The wrapper's miss branch: func(args) when there are arguments, func()
\* when there are none.  Params is the positional arguments the function is
\* called with: the args tuple itself, as one argument, or nothing.
Params(args) == IF Len(args.items) > 0 THEN <<args>> ELSE <<>>

Invoke(func, args) == Apply(func, Params(args))

\* The stairs of steps_to's base cases (cacheTest.py, lines 14 to 19).
Stairs == 1..3

\* The calls of well-behaved functions: they return a value that pickles.
CoreCalls ==
    {[func |-> "steps_to", args |-> PyTuple(<<PyInt(n)>>)] : n \in Stairs}
    \cup {[func |-> "nothing", args |-> PyTuple(<<>>)]}

\* All the calls of the model: also a result that does not pickle, a
\* function that raises, a function of two arguments, and an argument that
\* does not pickle.
Calls ==
    CoreCalls
    \cup {[func |-> "handle", args |-> PyTuple(<<PyInt(1)>>)],
          [func |-> "boom", args |-> PyTuple(<<PyInt(1)>>)],
          [func |-> "add", args |-> PyTuple(<<PyInt(1), PyInt(2)>>)],
          [func |-> "steps_to", args |-> PyTuple(<<PyObj>>)]}

NoCall == [func |-> "-", args |-> PyTuple(<<>>)]

(***************************************************************************)
(* __build_file_name: the digest of func.__name__.encode("utf8") +         *)
(* pickle.dumps(args), in hexadecimal.  The hash is taken to be            *)
(* collision-free (it is the identity on the bytes hashed); hexdigest      *)
(* writes each byte as two hexadecimal digits.  With cacheDir = "cache"    *)
(* the node os.path.relpath(fileName, "cache") is the digest itself.       *)
(***************************************************************************)
encode(name) ==
    CASE name = "steps_to" -> <<115, 116, 101, 112, 115, 95, 116, 111>>
      [] name = "nothing" -> <<110, 111, 116, 104, 105, 110, 103>>
      [] name = "add" -> <<97, 100, 100>>
      [] name = "handle" -> <<104, 97, 110, 100, 108, 101>>
      [] name = "boom" -> <<98, 111, 111, 109>>

RECURSIVE hexdigest(_)
hexdigest(bytes) ==
    IF bytes = <<>> THEN <<>>
    ELSE <<Head(bytes) \div 16, Head(bytes) % 16>> \o hexdigest(Tail(bytes))

build_file_name(func, args) == hexdigest(encode(func) \o dumps(args).bytes)

\* The wrapper's two first steps for each call of the model: the file name it
\* builds (when the arguments pickle) and what invoking the function gives.
Keyed == {c \in Calls : dumps(c.args).ok}

fileNameOf == [c \in Keyed |-> build_file_name(c.func, c.args)]

returnValOf == [c \in Keyed |-> Invoke(c.func, c.args)]

(***************************************************************************)
(* The state.                                                              *)
(*   files           the cache directory: file name (digest) -> bytes      *)
(*   recentAccessed  Cache.__recentAccessed, most recent first             *)
(*   hits, misses    the statistics counters                               *)
(*   maxSize         Cache.__maxSize                                       *)
(*   evictionSize    Cache.evictionSize                                    *)
(*   last            the operation just performed: what was called, how it *)
(*                   ended, what it returned                               *)
(*   ghost           history the claims speak of (no code reads it)        *)
(***************************************************************************)
VARIABLES files, recentAccessed, hits, misses, maxSize, evictionSize, last, ghost

vars == <<files, recentAccessed, hits, misses, maxSize, evictionSize, last, ghost>>

\* Budgets the model runs with (bytes).
SmallBudget == 20

LargeBudget == 40

\* The eviction batches the model is constructed with: the default, 1, and
\* a larger one.
EvictionSizes == {1, 2}

\* The recency list grows without bound when entries are stored again after
\* clear(); the model takes no store that makes it longer than this.
MaxList == 3

\* How many times in a run the directory is emptied by clear() or a file is
\* overwritten from outside.
MaxTampers == 1

\* The highest stair the recursive steps_to is called with.  (Up to stair 9
\* the results are below 256 and pickle as one-byte ints.)
MaxStair == 6

\* The budget of the test program: Cache(maxSize=200000).
TestBudget == 200000

Budgets == {SmallBudget, LargeBudget}

\* __get_cache_size: the sum of st_size over os.scandir(cacheDir).
RECURSIVE SumSizes(_, _)
SumSizes(fs, names) ==
    IF names = {} THEN 0
    ELSE LET n == CHOOSE x \in names : TRUE
         IN  Len(fs[n]) + SumSizes(fs, names \ {n})

get_cache_size(fs) == SumSizes(fs, DOMAIN fs)

\* A variant of WriteFile that leaves the new file alone in the directory.
WriteFile_fresh(fs, name, bytes) == [x \in {name} |-> bytes]

\* open(fileName, "wb") ... f.write(bytes): create or truncate, then write.
WriteFile(fs, name, bytes) ==
    [x \in DOMAIN fs \cup {name} |-> IF x = name THEN bytes ELSE fs[x]]

\* list.index(node): the first position holding node, 0 when there is none
\* (where Python raises ValueError).
RECURSIVE IndexFrom(_, _, _)
IndexFrom(list, node, i) ==
    IF i > Len(list) THEN 0
    ELSE IF list[i] = node THEN i ELSE IndexFrom(list, node, i + 1)

index(list, node) == IndexFrom(list, node, 1)

\* list.pop(i) leaves the list without its i-th element.
Without(list, i) == SubSeq(list, 1, i - 1) \o SubSeq(list, i + 1, Len(list))

\* A variant of __shift_node that exchanges the node with the head of the
\* list.
shift_node_swap(list, node) ==
    LET i == index(list, node)
    IN  IF i = 0 THEN [exc |-> "ValueError", recent |-> list]
        ELSE [exc |-> "",
              recent |-> [j \in 1..Len(list) |->
                             IF j = 1 THEN list[i] ELSE IF j = i THEN list[1] ELSE list[j]]]

\* __shift_node: [list.pop(index)] + list.
shift_node(list, node) ==
    LET i == index(list, node)
    IN  IF i = 0 THEN [exc |-> "ValueError", recent |-> list]
        ELSE [exc |-> "", recent |-> <<list[i]>> \o Without(list, i)]

\* A variant of evict that returns without removing anything.
evict_silent(fs, list, count) == [exc |-> "", files |-> fs, recent |-> list]

\* self.__evict(self.evictionSize): Cache defines no __evict, so the
\* attribute lookup raises AttributeError and nothing is removed.
evict(fs, list, count) ==
    [exc |-> "AttributeError", files |-> fs, recent |-> list]

\* A variant of __handle_cache_size that evicts as soon as the directory
\* has reached the budget.
handle_cache_size_ge(fs, list, max, count) ==
    IF get_cache_size(fs) >= max THEN evict(fs, list, count)
    ELSE [exc |-> "", files |-> fs, recent |-> list]

\* __handle_cache_size.
handle_cache_size(fs, list, max, count) ==
    IF get_cache_size(fs) > max THEN evict(fs, list, count)
    ELSE [exc |-> "", files |-> fs, recent |-> list]

\* A variant of __write_cache that writes the pickle without its STOP opcode.
write_cache_truncated(fs, list, max, count, fileName, returnVal) ==
    LET packed == dumps(returnVal)
    IN  IF get_cache_size(fs) > max
        THEN [exc |-> "AttributeError", files |-> fs, recent |-> list]
        ELSE IF ~packed.ok
             THEN [exc |-> "PicklingError", files |-> WriteFile(fs, fileName, <<>>),
                   recent |-> list]
             ELSE [exc |-> "",
                   files |-> WriteFile(fs, fileName,
                                       compress(SubSeq(packed.bytes, 1,
                                                       Len(packed.bytes) - 1))),
                   recent |-> <<fileName>> \o list]

\* __write_cache: the size check; open(fileName, "wb"), which creates or
\* truncates the file; pickle.dumps and zlib.compress inside the with block;
\* the write; the insert at the head of the list.
write_cache(fs, list, max, count, fileName, returnVal) ==
    LET h == handle_cache_size(fs, list, max, count)
        packed == dumps(returnVal)
    IN  IF h.exc # "" THEN h
        ELSE IF ~packed.ok
             THEN [exc |-> "PicklingError",
                   files |-> WriteFile(h.files, fileName, <<>>),
                   recent |-> h.recent]
             ELSE [exc |-> "",
                   files |-> WriteFile(h.files, fileName, compress(packed.bytes)),
                   recent |-> <<fileName>> \o h.recent]

\* A variant of __read_cache that moves the node to the front before it
\* decodes the file.
read_cache_shift_first(fs, list, fileName) ==
    LET z == decompress(fs[fileName])
        variables == loads(z.bytes)
        moved == shift_node(list, fileName)
    IN  IF moved.exc # "" THEN [exc |-> moved.exc, val |-> PyNone, recent |-> list]
        ELSE IF ~z.ok
             THEN [exc |-> "zlib.error", val |-> PyNone, recent |-> moved.recent]
             ELSE IF ~variables.ok
                  THEN [exc |-> "UnpicklingError", val |-> PyNone,
                        recent |-> moved.recent]
                  ELSE [exc |-> "", val |-> variables.val, recent |-> moved.recent]

\* __read_cache: read, decompress, unpickle, then move the node to the front.
read_cache(fs, list, fileName) ==
    LET z == decompress(fs[fileName])
        variables == loads(z.bytes)
        moved == shift_node(list, fileName)
    IN  IF ~z.ok THEN [exc |-> "zlib.error", val |-> PyNone, recent |-> list]
        ELSE IF ~variables.ok
             THEN [exc |-> "UnpicklingError", val |-> PyNone, recent |-> list]
             ELSE [exc |-> moved.exc,
                   val |-> IF moved.exc = "" THEN variables.val ELSE PyNone,
                   recent |-> moved.recent]

\* get_info's dictionary; "filled" is kept as the fraction bytes / maxSize.
get_info(fs, list, h, m, max) ==
    [hits |-> h, misses |-> m, bytes |-> get_cache_size(fs), items |-> Len(list),
     filled |-> <<get_cache_size(fs), max>>]

NoInfo == [hits |-> 0, misses |-> 0, bytes |-> 0, items |-> 0, filled |-> <<0, 1>>]

(***************************************************************************)
(* The record of an operation.                                             *)
(*   outcome   "return", or the name of the exception that left it         *)
(*   path      "hit" (os.path.isfile was true), "miss", or "-"             *)
(*   invoked   the wrapped function was called                             *)
(*   evicting  the size check found the directory over budget and called   *)
(*             __evict                                                     *)
(*   first     when the operation before this one addressed the same      *)
(*             entry (the same call, or a store or lookup of its key):     *)
(*             its path ("miss" for a store, "hit" for a lookup);          *)
(*             "-" otherwise                                               *)
(*   firstOutcome, before   how that earlier operation ended, and the      *)
(*             value it stored or returned                                 *)
(***************************************************************************)
Follows(op, call) ==
    /\ op \in {"call", "lookup"}
    /\ last.op \in {"call", "store", "lookup"}
    /\ last.call = call

Op(op, call, outcome, ret, path, invoked, evicting, info) ==
    [op |-> op, call |-> call, outcome |-> outcome, ret |-> ret,
     path |-> path, invoked |-> invoked, evicting |-> evicting,
     first |-> IF Follows(op, call) THEN last.path ELSE "-",
     firstOutcome |-> IF Follows(op, call) THEN last.outcome ELSE "-",
     before |-> IF Follows(op, call) THEN last.ret ELSE PyNone,
     info |-> info]

Outcome(exc) == IF exc = "" THEN "return" ELSE exc

EmptyDir == [x \in {} |-> <<>>]

\* ghost.ok: since construction the operations were n stores of distinct
\* calls (ghost.firsts, in order) and then ghost.reps repeats of them in the
\* same order, with get_info the only other operation.
\* ghost.onlyCalls: since construction only the wrapper and get_info ran.
\* ghost.lastW: while ghost.onlyCalls, the size of the entry file the latest
\* store wrote.
Broken(g) == [g EXCEPT !.firsts = <<>>, !.reps = 0, !.ok = FALSE]

\* ghost.tampers: how many times clear() ran or a file was overwritten from
\* outside.
Tampered(g) == [Broken(g) EXCEPT !.onlyCalls = FALSE, !.lastW = 0]

\* ghost.runs: how many times the body of the recursive steps_to ran for
\* each stair.
\* ghost.log: what the latest call of the recursive steps_to did, nested
\* calls included, in the order they completed: the stair, and whether it
\* was read from its file or stored.
NoHistory ==
    [firsts |-> <<>>, reps |-> 0, ok |-> TRUE, onlyCalls |-> TRUE, lastW |-> 0,
     tampers |-> 0, runs |-> [n \in 1..MaxStair |-> 0], log |-> <<>>]

NoOp ==
    [op |-> "init", call |-> NoCall, outcome |-> "return", ret |-> PyNone,
     path |-> "-", invoked |-> FALSE, evicting |-> FALSE, first |-> "-",
     firstOutcome |-> "-", before |-> PyNone, info |-> NoInfo]

Init ==
    /\ files = EmptyDir
    /\ recentAccessed = <<>>
    /\ hits = 0
    /\ misses = 0
    /\ maxSize \in Budgets
    /\ evictionSize \in EvictionSizes
    /\ ghost = NoHistory
    /\ last = NoOp

\* wrapper(*args) when pickle.dumps(args) raises in __build_file_name.
CallBadArgs(c) ==
    /\ c \notin Keyed
    /\ last' = Op("call", c, "PicklingError", PyNone, "-", FALSE, FALSE, NoInfo)
    /\ ghost' = Broken(ghost)
    /\ UNCHANGED <<files, recentAccessed, hits, misses, maxSize, evictionSize>>

\* wrapper(*args) when the entry file exists: __read_cache.
CallHit(c) ==
    /\ c \in Keyed
    /\ fileNameOf[c] \in DOMAIN files
    /\ LET fileName == fileNameOf[c]
           r == read_cache(files, recentAccessed, fileName)
       IN  /\ recentAccessed' = r.recent
           /\ last' = Op("call", c, Outcome(r.exc), r.val, "hit", FALSE, FALSE, NoInfo)
           /\ ghost' = IF /\ r.exc = "" /\ ghost.ok /\ ghost.reps < Len(ghost.firsts)
                          /\ ghost.firsts[ghost.reps + 1] = c
                       THEN [ghost EXCEPT !.reps = ghost.reps + 1]
                       ELSE Broken(ghost)
    /\ UNCHANGED <<files, hits, misses, maxSize, evictionSize>>

\* A variant of the miss branch that runs the size check before it invokes
\* the function.
CallMissRaises_checked(c) ==
    /\ c \in Keyed
    /\ fileNameOf[c] \notin DOMAIN files
    /\ returnValOf[c].exc # ""
    /\ LET h == handle_cache_size(files, recentAccessed, maxSize, evictionSize)
       IN  last' = Op("call", c, IF h.exc # "" THEN h.exc ELSE returnValOf[c].exc,
                      PyNone, "miss", h.exc = "", get_cache_size(files) > maxSize,
                      NoInfo)
    /\ ghost' = Broken(ghost)
    /\ UNCHANGED <<files, recentAccessed, hits, misses, maxSize, evictionSize>>

\* wrapper(*args) when there is no entry file and the wrapped function raises.
CallMissRaises(c) ==
    /\ c \in Keyed
    /\ fileNameOf[c] \notin DOMAIN files
    /\ returnValOf[c].exc # ""
    /\ last' = Op("call", c, returnValOf[c].exc, PyNone, "miss", TRUE, FALSE,
                  NoInfo)
    /\ ghost' = Broken(ghost)
    /\ UNCHANGED <<files, recentAccessed, hits, misses, maxSize, evictionSize>>

\* wrapper(*args) when there is no entry file and the wrapped function
\* returns: __write_cache, then the value is returned.
CallMissStore(c) ==
    /\ c \in Keyed
    /\ fileNameOf[c] \notin DOMAIN files
    /\ returnValOf[c].exc = ""
    /\ LET fileName == fileNameOf[c]
           returnVal == returnValOf[c].val
           w == write_cache(files, recentAccessed, maxSize, evictionSize,
                            fileName, returnVal)
           g == IF w.exc = "" /\ ghost.ok /\ ghost.reps = 0
                THEN [ghost EXCEPT !.firsts = Append(ghost.firsts, c)]
                ELSE Broken(ghost)
       IN  /\ Len(w.recent) <= MaxList
           /\ files' = w.files
           /\ recentAccessed' = w.recent
           /\ last' = Op("call", c, Outcome(w.exc),
                         IF w.exc = "" THEN returnVal ELSE PyNone,
                         "miss", TRUE, get_cache_size(files) > maxSize, NoInfo)
           /\ ghost' = IF ghost.onlyCalls /\ fileName \in DOMAIN w.files
                       THEN [g EXCEPT !.lastW = Len(w.files[fileName])]
                       ELSE g
    /\ UNCHANGED <<hits, misses, maxSize, evictionSize>>

\* A variant of clear() that takes one off each counter.
Clear_uncounting ==
    /\ ghost.tampers < MaxTampers
    /\ files' = EmptyDir
    /\ hits' = hits - 1
    /\ misses' = misses - 1
    /\ last' = Op("clear", NoCall, "return", PyNone, "-", FALSE, FALSE, NoInfo)
    /\ ghost' = [Tampered(ghost) EXCEPT !.tampers = ghost.tampers + 1]
    /\ UNCHANGED <<recentAccessed, maxSize, evictionSize>>

\* clear(): shutil.rmtree(cacheDir); os.mkdir(cacheDir).
Clear ==
    /\ ghost.tampers < MaxTampers
    /\ files' = EmptyDir
    /\ last' = Op("clear", NoCall, "return", PyNone, "-", FALSE, FALSE, NoInfo)
    /\ ghost' = [Tampered(ghost) EXCEPT !.tampers = ghost.tampers + 1]
    /\ UNCHANGED <<recentAccessed, hits, misses, maxSize, evictionSize>>

\* set_maxSize(b): the assignment, then __handle_cache_size.
SetMaxSize(b) ==
    /\ maxSize' = b
    /\ LET h == handle_cache_size(files, recentAccessed, b, evictionSize)
       IN  /\ files' = h.files
           /\ recentAccessed' = h.recent
           /\ last' = Op("set_maxSize", NoCall, Outcome(h.exc), PyNone, "-", FALSE,
                         get_cache_size(files) > b, NoInfo)
    /\ ghost' = Tampered(ghost)
    /\ UNCHANGED <<hits, misses, evictionSize>>

\* get_info().
GetInfo ==
    /\ last' = Op("get_info", NoCall, "return", PyNone, "-", FALSE, FALSE,
                  get_info(files, recentAccessed, hits, misses, maxSize))
    /\ UNCHANGED <<files, recentAccessed, hits, misses, maxSize, evictionSize, ghost>>

(***************************************************************************)
(* The directory is exposed to whatever else writes to it.                 *)
(***************************************************************************)
\* Bytes that do not decompress, and bytes that decompress to no pickle.
Garbage == {<<103, 97, 114, 98, 97, 103, 101>>, compress(<<103>>)}

\* Something overwrites the file of a tracked entry with garbage.
Corrupt(c, g) ==
    /\ ghost.tampers < MaxTampers
    /\ c \in Keyed
    /\ fileNameOf[c] \in DOMAIN files
    /\ index(recentAccessed, fileNameOf[c]) # 0
    /\ files[fileNameOf[c]] # g
    /\ files' = WriteFile(files, fileNameOf[c], g)
    /\ last' = Op("corrupt", c, "return", PyNone, "-", FALSE, FALSE, NoInfo)
    /\ ghost' = [Tampered(ghost) EXCEPT !.tampers = ghost.tampers + 1]
    /\ UNCHANGED <<recentAccessed, hits, misses, maxSize, evictionSize>>

\* A cache wrapping well-behaved functions, with clear(), set_maxSize(),
\* get_info() and outside writes.
Next ==
    \/ \E c \in CoreCalls : CallHit(c)
    \/ \E c \in CoreCalls : CallMissStore(c)
    \/ Clear
    \/ \E b \in Budgets : SetMaxSize(b)
    \/ GetInfo
    \/ \E c \in CoreCalls, g \in Garbage : Corrupt(c, g)

Spec == Init /\ [][Next]_vars

\* The wrapper alone, over every kind of call, with get_info().
NextWrapper ==
    \/ \E c \in Calls : CallBadArgs(c)
    \/ \E c \in Calls : CallHit(c)
    \/ \E c \in Calls : CallMissRaises(c)
    \/ \E c \in Calls : CallMissStore(c)
    \/ GetInfo

SpecWrapper == Init /\ [][NextWrapper]_vars

(***************************************************************************)
(* The store used directly: __write_cache and __read_cache applied to a    *)
(* key and an arbitrary value, without the wrapper in between.             *)
(***************************************************************************)
Values ==
    {PyNone, PyInt(0), PyInt(255), PyTuple(<<>>), PyTuple(<<PyInt(7)>>),
     PyTuple(<<PyNone, PyInt(255)>>), PyTuple(<<PyInt(1), PyInt(2), PyInt(3)>>),
     PyObj}

\* The entries the direct stores and lookups address.
StoreCalls == {c \in Keyed : c.func = "steps_to" /\ c.args.items[1] \in {PyInt(1), PyInt(2)}}

\* __write_cache(fileName, v).
Store(c, v) ==
    LET w == write_cache(files, recentAccessed, maxSize, evictionSize, fileNameOf[c], v)
    IN  /\ Len(w.recent) <= MaxList
        /\ files' = w.files
        /\ recentAccessed' = w.recent
        /\ last' = Op("store", c, Outcome(w.exc), v, "miss", FALSE,
                      get_cache_size(files) > maxSize, NoInfo)
        /\ ghost' = Tampered(ghost)
        /\ UNCHANGED <<hits, misses, maxSize, evictionSize>>

\* __read_cache(fileName), for a file that exists.
Lookup(c) ==
    /\ fileNameOf[c] \in DOMAIN files
    /\ LET r == read_cache(files, recentAccessed, fileNameOf[c])
       IN  /\ recentAccessed' = r.recent
           /\ last' = Op("lookup", c, Outcome(r.exc), r.val, "hit", FALSE, FALSE, NoInfo)
    /\ ghost' = Tampered(ghost)
    /\ UNCHANGED <<files, hits, misses, maxSize, evictionSize>>

NextStore ==
    \/ \E c \in StoreCalls, v \in Values : Store(c, v)
    \/ \E c \in StoreCalls : Lookup(c)

SpecStore == Init /\ [][NextStore]_vars

\* The store used directly while the budget is changed.
NextBudget ==
    \/ \E c \in StoreCalls, v \in Values : Store(c, v)
    \/ \E b \in Budgets : SetMaxSize(b)

SpecBudget == Init /\ [][NextBudget]_vars

(***************************************************************************)
(* A directory shared with another Cache instance (clear's docstring,      *)
(* lines 150 to 152): the other instance stores entries this instance's    *)
(* recency list does not name.                                             *)
(***************************************************************************)
\* Another instance, within its own budget, stores the entry of call c:
\* the file appears, this instance's list is as it was.
OtherStore(c) ==
    /\ c \in Keyed
    /\ fileNameOf[c] \notin DOMAIN files
    /\ returnValOf[c].exc = ""
    /\ dumps(returnValOf[c].val).ok
    /\ files' = WriteFile(files, fileNameOf[c],
                          compress(dumps(returnValOf[c].val).bytes))
    /\ last' = Op("other_store", c, "return", returnValOf[c].val, "-", FALSE, FALSE,
                  NoInfo)
    /\ ghost' = Tampered(ghost)
    /\ UNCHANGED <<recentAccessed, hits, misses, maxSize, evictionSize>>

NextShared ==
    \/ \E c \in CoreCalls : CallHit(c)
    \/ \E c \in CoreCalls : CallMissStore(c)
    \/ \E c \in CoreCalls : OtherStore(c)
    \/ \E b \in Budgets : SetMaxSize(b)
    \/ GetInfo

SpecShared == Init /\ [][NextShared]_vars

(***************************************************************************)
(* The test program (test/cacheTest.py): steps_to calls itself through the *)
(* wrapper.  A wrapper call runs to its end, nested calls included, on a   *)
(* machine state st:                                                       *)
(*   files, recent   the directory and the recency list                    *)
(*   max, count      maxSize and evictionSize                              *)
(*   runs, log       as ghost.runs and ghost.log                           *)
(* and gives the state it leaves, the exception that left it ("" when it   *)
(* returned) and the value returned.                                       *)
(***************************************************************************)
stepsCall(n) == [func |-> "steps_to", args |-> PyTuple(<<PyInt(n)>>)]

stairFile == [n \in 1..MaxStair |-> build_file_name("steps_to", PyTuple(<<PyInt(n)>>))]

RECURSIVE wrapper(_, _), steps_to(_, _)

\* The miss branch of the wrapper for steps_to(n): func(args), then
\* __write_cache, then the value.
miss(st, n) ==
    LET f == steps_to(st, PyTuple(<<PyInt(n)>>))
        w == write_cache(f.st.files, f.st.recent, st.max, st.count, stairFile[n], f.val)
    IN  IF f.exc # "" THEN f
        ELSE [st |-> [f.st EXCEPT !.files = w.files, !.recent = w.recent,
                                  !.log = IF w.exc = ""
                                          THEN Append(@, [stair |-> n, kind |-> "store"])
                                          ELSE @],
              exc |-> w.exc,
              val |-> IF w.exc = "" THEN f.val ELSE PyNone]

\* A variant of the wrapper that does not look for the entry file.
wrapper_recompute(st, n) == miss(st, n)

\* wrapper(n), the decorated steps_to called with the one argument n.
wrapper(st, n) ==
    IF stairFile[n] \in DOMAIN st.files
    THEN LET r == read_cache(st.files, st.recent, stairFile[n])
         IN  [st |-> [st EXCEPT !.recent = r.recent,
                                !.log = IF r.exc = ""
                                        THEN Append(@, [stair |-> n, kind |-> "hit"])
                                        ELSE @],
              exc |-> r.exc, val |-> r.val]
    ELSE miss(st, n)

\* The body of steps_to (cacheTest.py, lines 12 to 21): stair is the args
\* tuple the wrapper passes; the three nested calls run left to right
\* and an exception in one of them leaves the body.
steps_to(st, stair) ==
    LET s == stair.items[1].n
        st0 == [st EXCEPT !.runs[s] = @ + 1]
        a == wrapper(st0, s - 3)
        b == wrapper(a.st, s - 2)
        c == wrapper(b.st, s - 1)
    IN  IF s = 1 THEN [st |-> st0, exc |-> "", val |-> PyInt(1)]
        ELSE IF s = 2 THEN [st |-> st0, exc |-> "", val |-> PyInt(2)]
        ELSE IF s = 3 THEN [st |-> st0, exc |-> "", val |-> PyInt(4)]
        ELSE IF a.exc # "" THEN a
        ELSE IF b.exc # "" THEN b
        ELSE IF c.exc # "" THEN c
        ELSE [st |-> c.st, exc |-> "", val |-> PyInt(a.val.n + b.val.n + c.val.n)]

\* cache = SimpleCache.Cache(maxSize=200000); cache.clear().
InitTest ==
    /\ files = EmptyDir
    /\ recentAccessed = <<>>
    /\ hits = 0
    /\ misses = 0
    /\ maxSize = TestBudget
    /\ evictionSize = 1
    /\ ghost = NoHistory
    /\ last = NoOp

\* steps_to(n) called from the test loop.
CallSteps(n) ==
    LET r == wrapper([files |-> files, recent |-> recentAccessed, max |-> maxSize,
                      count |-> evictionSize, runs |-> ghost.runs, log |-> <<>>], n)
        present == stairFile[n] \in DOMAIN files
    IN  /\ files' = r.st.files
        /\ recentAccessed' = r.st.recent
        /\ last' = Op("call", stepsCall(n), Outcome(r.exc), r.val,
                      IF present THEN "hit" ELSE "miss", ~present,
                      r.exc = "AttributeError", NoInfo)
        /\ ghost' = [Broken(ghost) EXCEPT !.runs = r.st.runs, !.log = r.st.log]
        /\ UNCHANGED <<hits, misses, maxSize, evictionSize>>

\* A call of the test loop that finds its entry file, and one that does not.
StepsHit(n) == stairFile[n] \in DOMAIN files /\ CallSteps(n)

StepsMiss(n) == stairFile[n] \notin DOMAIN files /\ CallSteps(n)

NextTest ==
    \/ \E n \in 1..MaxStair : StepsHit(n)
    \/ \E n \in 1..MaxStair : StepsMiss(n)

SpecTest == InitTest /\ [][NextTest]_vars

(***************************************************************************)
(* The claims.                                                             *)
(***************************************************************************)
\* The entries an eviction of count entries removes from list: its tail.
EvictedTail(list, count) ==
    {list[i] : i \in {j \in 1..Len(list) : j > Len(list) - count}}

KeptAfterEvict(list, count) ==
    SubSeq(list, 1, IF Len(list) > count THEN Len(list) - count ELSE 0)

\* C1: for a wrapped function that returns a serializable value, the second
\* of two sequential wrapper calls with the same arguments returns the value
\* the first returned and does not invoke the function: it is served from
\* the entry file the first call wrote.
C1_RepeatServedFromCache ==
    (/\ last.op = "call" /\ last.first # "-"
     /\ last.call \in Keyed
     /\ returnValOf[last.call].exc = ""
     /\ dumps(returnValOf[last.call].val).ok)
        => /\ last.firstOutcome = "return"
           /\ last.outcome = "return"
           /\ last.path = "hit"
           /\ ~last.invoked
           /\ last.ret = last.before

\* C2: from an empty cache, after n calls with distinct arguments and then n
\* repeats of them, get_info() reports hits = n and misses = n.
C2_HitMissAccounting ==
    (last.op = "get_info" /\ ghost.ok /\ ghost.reps = Len(ghost.firsts))
        => /\ last.info.hits = Len(ghost.firsts)
           /\ last.info.misses = Len(ghost.firsts)

\* C3: with the recency list <<A, C, B>> (A, B, C stored in that order, then
\* A read again) and evictionSize = 1, an operation that evicts removes B's
\* file and B's list entry and leaves A and C on disk and listed.
C3_EvictionOrder ==
    [][(/\ last.op = "call" /\ last.path = "hit" /\ last.outcome = "return"
        /\ Len(recentAccessed) = 3
        /\ recentAccessed[1] = fileNameOf[last.call]
        /\ Cardinality({recentAccessed[i] : i \in 1..3}) = 3
        /\ {recentAccessed[i] : i \in 1..3} \subseteq DOMAIN files
        /\ evictionSize = 1
        /\ last'.evicting)
       => /\ recentAccessed[3] \notin DOMAIN files'
          /\ index(recentAccessed', recentAccessed[3]) = 0
          /\ {recentAccessed[1], recentAccessed[2]} \subseteq DOMAIN files'
          /\ index(recentAccessed', recentAccessed[1]) # 0
          /\ index(recentAccessed', recentAccessed[2]) # 0]_vars

\* C4: a store that begins with the directory over budget first deletes the
\* evictionSize entries at the tail of the recency list, then writes the new
\* entry and puts it at the head of the list.
C4_StoreEvictsThenWrites ==
    [][(/\ last'.op = "call" /\ last'.path = "miss" /\ last'.evicting
        /\ dumps(returnValOf[last'.call].val).ok)
       => /\ last'.outcome = "return"
          /\ fileNameOf[last'.call] \in DOMAIN files'
          /\ recentAccessed' = <<fileNameOf[last'.call]>>
                               \o KeptAfterEvict(recentAccessed, evictionSize)
          /\ \A n \in EvictedTail(recentAccessed, evictionSize) : n \notin DOMAIN files']_vars

\* C5: while only the wrapper has run (fixed maxSize and evictionSize), the
\* directory size, which is what the next store measures before it writes,
\* exceeds maxSize by no more than the size of the entry the latest store
\* wrote.
C5_SizeBound ==
    ghost.onlyCalls => get_cache_size(files) <= maxSize + ghost.lastW

\* A store began with the directory over budget by the latest write.
C5_Witness ==
    /\ ghost.onlyCalls
    /\ last.op = "call" /\ last.path = "miss" /\ last.evicting
    /\ get_cache_size(files) > maxSize
    /\ ghost.lastW > 0

\* C6: a lookup of key k right after a store of v under k returns a value
\* equal to v.
C6_RoundTrip ==
    (last.op = "lookup" /\ last.first = "miss" /\ last.firstOutcome = "return")
        => /\ last.outcome = "return"
           /\ last.ret = last.before

\* A tuple stored and read back.
C6_Witness ==
    /\ last.op = "lookup" /\ last.first = "miss" /\ last.firstOutcome = "return"
    /\ last.outcome = "return"
    /\ last.ret = PyTuple(<<PyNone, PyInt(255)>>)

\* C7: get_info() right after clear() reports zero items and zero bytes: the
\* directory is empty and the recency list names no deleted file.
C7_ClearThenInfo ==
    [][(last.op = "clear" /\ last'.op = "get_info")
       => /\ last'.info.items = 0
          /\ last'.info.bytes = 0
          /\ \A i \in 1..Len(recentAccessed') : recentAccessed'[i] \in DOMAIN files']_vars

\* C8: a wrapper call whose tracked entry file holds bytes that do not
\* decompress or unpickle ends in an error, does not invoke the wrapped
\* function, rewrites no file and leaves the recency list unchanged.
C8_CorruptionDetected ==
    [][(/\ last'.op = "call"
        /\ last'.call \in Keyed
        /\ fileNameOf[last'.call] \in DOMAIN files
        /\ files[fileNameOf[last'.call]] \in Garbage
        /\ index(recentAccessed, fileNameOf[last'.call]) # 0)
       => /\ last'.outcome \in {"zlib.error", "UnpicklingError"}
          /\ ~last'.invoked
          /\ files' = files
          /\ recentAccessed' = recentAccessed]_vars

\* A lookup of a corrupted entry that is tracked but not at the head of the
\* list has raised.
C8_Witness ==
    /\ last.op = "call" /\ last.path = "hit"
    /\ last.outcome = "UnpicklingError"
    /\ files[fileNameOf[last.call]] \in Garbage
    /\ index(recentAccessed, fileNameOf[last.call]) > 1

\* C9: a call that fails because a value or an argument cannot be pickled
\* leaves the directory as it was.
C9_EncodingErrorTouchesNoFile ==
    [][(last'.op = "call" /\ last'.outcome = "PicklingError") => files' = files]_vars

\* C10: set_maxSize(b) sets the budget to b; if the directory is larger than
\* b it returns having removed the evictionSize least recently used
\* entries, and otherwise it removes nothing.
C10_SetMaxSizeEvictsEagerly ==
    [][(last'.op = "set_maxSize")
       => /\ last'.outcome = "return"
          /\ IF get_cache_size(files) > maxSize'
             THEN /\ recentAccessed' = KeptAfterEvict(recentAccessed, evictionSize)
                  /\ \A n \in EvictedTail(recentAccessed, evictionSize) : n \notin DOMAIN files'
             ELSE files' = files /\ recentAccessed' = recentAccessed]_vars

\* C11: on a miss the wrapped function is called with the wrapper's own
\* positional arguments, as many as the wrapper received.
C11_ArityPreserved ==
    (last.op = "call" /\ last.invoked)
        => Params(last.call.args) = last.call.args.items

\* C12: the recency list names each file of the directory once and nothing
\* else, whatever wrapper calls, clear() and set_maxSize() have run.
C12_ListMatchesFiles ==
    /\ {recentAccessed[i] : i \in 1..Len(recentAccessed)} = DOMAIN files
    /\ Len(recentAccessed) = Cardinality(DOMAIN files)

\* C13: a wrapper call whose entry file is present and holds a stored
\* value returns that value and leaves the key at the head of the recency
\* list, whether or not the list named the file before.
C13_PresentFileIsServed ==
    (/\ last.op = "call" /\ last.path = "hit"
     /\ decompress(files[fileNameOf[last.call]]).ok
     /\ loads(decompress(files[fileNameOf[last.call]]).bytes).ok)
        => /\ last.outcome = "return"
           /\ last.ret = loads(decompress(files[fileNameOf[last.call]]).bytes).val
           /\ Len(recentAccessed) > 0
           /\ recentAccessed[1] = fileNameOf[last.call]

\* C14: an operation that finds the directory over budget while the recency
\* list holds fewer than evictionSize entries removes the files the list
\* names and completes: set_maxSize returns, a store writes its entry.
C14_PartialEvictionCompletes ==
    [][(/\ last'.op \in {"call", "set_maxSize"}
        /\ last'.evicting
        /\ Len(recentAccessed) < evictionSize)
       => /\ last'.outcome = "return"
          /\ \A i \in 1..Len(recentAccessed) : recentAccessed[i] \notin DOMAIN files'
          /\ last'.op = "call" => fileNameOf[last'.call] \in DOMAIN files']_vars

\* C15: a wrapper call, get_info() or set_maxSize() that evicts nothing
\* leaves every entry file that was there in place with the bytes it had.
C15_EntriesStay ==
    [][(last'.op \in {"call", "get_info", "set_maxSize"} /\ ~last'.evicting)
       => \A n \in DOMAIN files : n \in DOMAIN files' /\ files'[n] = files[n]]_vars

\* A store has been added next to two entries stored earlier, which still
\* hold what was stored.
C15_Witness ==
    /\ last.op = "call" /\ last.path = "miss" /\ last.outcome = "return"
    /\ Cardinality(DOMAIN files) = 3
    /\ \A c \in CoreCalls :
          fileNameOf[c] \in DOMAIN files
              => files[fileNameOf[c]] = compress(dumps(returnValOf[c].val).bytes)

\* C16: no operation decreases the hit counter or the miss counter, and
\* clear() leaves both as they were.
C16_CountersMonotone ==
    [][/\ hits' >= hits
       /\ misses' >= misses
       /\ last'.op = "clear" => hits' = hits /\ misses' = misses]_vars

\* clear() has run on a cache that had stored entries.
C16_Witness ==
    /\ last.op = "clear"
    /\ Len(recentAccessed) > 0
    /\ hits = 0 /\ misses = 0

\* C17: a hit on key k moves k to the head of the recency list, leaving the
\* length and the order of the other entries as they were; a store puts k
\* in front of the list as it was.
C17_TouchedKeyAtHead ==
    [][(last'.op = "call" /\ last'.outcome = "return")
       => LET k == fileNameOf[last'.call]
          IN  /\ Len(recentAccessed') > 0
              /\ recentAccessed'[1] = k
              /\ IF last'.path = "hit"
                 THEN /\ Len(recentAccessed') = Len(recentAccessed)
                      /\ \E i \in 1..Len(recentAccessed) :
                            /\ recentAccessed[i] = k
                            /\ Tail(recentAccessed') =
                                   [j \in 1..(Len(recentAccessed) - 1) |->
                                       recentAccessed[IF j < i THEN j ELSE j + 1]]
                 ELSE Tail(recentAccessed') = recentAccessed]_vars

\* A hit has moved the entry stored first, steps_to(1), from the tail of a
\* list of three to its head.
C17_Witness ==
    /\ last.op = "call" /\ last.path = "hit" /\ last.outcome = "return"
    /\ last.call = [func |-> "steps_to", args |-> PyTuple(<<PyInt(1)>>)]
    /\ last.first = "-"
    /\ recentAccessed = <<fileNameOf[last.call],
                          fileNameOf[[func |-> "steps_to", args |-> PyTuple(<<PyInt(3)>>)]],
                          fileNameOf[[func |-> "steps_to", args |-> PyTuple(<<PyInt(2)>>)]]>>

\* C19: a size check that finds the directory at or below maxSize raises
\* nothing, removes no file and leaves the recency list as it was:
\* set_maxSize returns with nothing changed, and a store goes on to open
\* its file and, when it completes, puts its key in front of the list.
C19_EvictsOnlyAboveBudget ==
    [][(/\ last'.op \in {"store", "call", "set_maxSize"}
        /\ last'.path # "hit"
        /\ last'.op = "call" => last'.invoked /\ returnValOf[last'.call].exc = ""
        /\ get_cache_size(files) <= maxSize')
       => /\ last'.outcome # "AttributeError"
          /\ \A n \in DOMAIN files : n \in DOMAIN files'
          /\ IF last'.op = "set_maxSize"
             THEN /\ last'.outcome = "return"
                  /\ files' = files
                  /\ recentAccessed' = recentAccessed
             ELSE /\ fileNameOf[last'.call] \in DOMAIN files'
                  /\ \/ recentAccessed' = recentAccessed
                     \/ recentAccessed' = <<fileNameOf[last'.call]>> \o recentAccessed
                  /\ last'.outcome = "return"
                         => recentAccessed' = <<fileNameOf[last'.call]>> \o recentAccessed]_vars

\* A store has completed that found the directory holding exactly maxSize
\* bytes: the one other entry file.
C19_Witness ==
    /\ last.op = "store" /\ last.outcome = "return"
    /\ Cardinality(DOMAIN files) = 2
    /\ recentAccessed[1] = fileNameOf[last.call]
    /\ \E n \in DOMAIN files : n # fileNameOf[last.call] /\ Len(files[n]) = maxSize

\* C20: a wrapper call on a miss whose function raises leaves with that
\* exception, having invoked the function and run no size check; the
\* directory, the recency list and the counters are as before, so the same
\* call made again is a miss that invokes the function again.
C20_RaisingMissChangesNothing ==
    [][(/\ last'.op = "call"
        /\ last'.call \in Keyed
        /\ fileNameOf[last'.call] \notin DOMAIN files
        /\ returnValOf[last'.call].exc # "")
       => /\ last'.outcome = returnValOf[last'.call].exc
          /\ last'.path = "miss"
          /\ last'.invoked
          /\ ~last'.evicting
          /\ files' = files
          /\ recentAccessed' = recentAccessed
          /\ hits' = hits
          /\ misses' = misses]_vars

\* boom(1) has raised twice in a row, each time on a miss, with the
\* directory over budget.
C20_Witness ==
    /\ last.op = "call" /\ last.call.func = "boom"
    /\ last.first = "miss" /\ last.firstOutcome = "RuntimeError"
    /\ last.path = "miss" /\ last.outcome = "RuntimeError" /\ last.invoked
    /\ get_cache_size(files) > maxSize

\* How many times node occurs in list.
Occurrences(list, node) == Cardinality({i \in 1..Len(list) : list[i] = node})

\* C18: with steps_to calling itself through the wrapper, from an empty
\* cache and within budget, the body runs at most once for each stair;
\* when a call from the test loop returns, its key is at the head of the
\* recency list and every stair the call touched has its file and exactly
\* one list entry; on a miss the nested stores come before the call's own,
\* which is the last.
C18_RecursionStoresOnce ==
    /\ \A n \in 1..MaxStair : ghost.runs[n] <= 1
    /\ (last.op = "call" /\ last.outcome = "return")
          => LET n == last.call.args.items[1].n
                 log == ghost.log
             IN  /\ recentAccessed[1] = stairFile[n]
                 /\ Len(log) > 0
                 /\ log[Len(log)].stair = n
                 /\ \A i \in 1..Len(log) :
                       /\ stairFile[log[i].stair] \in DOMAIN files
                       /\ Occurrences(recentAccessed, stairFile[log[i].stair]) = 1
                 /\ last.path = "miss"
                       => /\ log[Len(log)].kind = "store"
                          /\ \A i \in 1..(Len(log) - 1) : log[i].stair < n

\* steps_to(5) has returned 13 on a miss after steps_to(3): its nested call
\* for stair 2 was stored, the one for stair 3 was read from its file, the
\* one for stair 4 stored stair 1 and itself, and stair 5 was stored last.
C18_Witness ==
    /\ last.op = "call" /\ last.outcome = "return" /\ last.path = "miss"
    /\ last.call = stepsCall(5)
    /\ last.ret = PyInt(13)
    /\ ghost.log = <<[stair |-> 2, kind |-> "store"], [stair |-> 3, kind |-> "hit"],
                     [stair |-> 1, kind |-> "store"], [stair |-> 2, kind |-> "hit"],
                     [stair |-> 3, kind |-> "hit"], [stair |-> 4, kind |-> "store"],
                     [stair |-> 5, kind |-> "store"]>>
    /\ recentAccessed = <<stairFile[5], stairFile[4], stairFile[3], stairFile[2],
                          stairFile[1]>>

====
